---------------------------- MODULE Spec2Model ----------------------------
(***************************************************************************)
(* Dodecahedron logger (Adafruit Feather M4): src/src_mcu/src/main.cpp.    *)
(*                                                                         *)
(* setup() and loop() are modelled statement by statement: pc holds the    *)
(* source line of the next statement to run ("s64" is line 64 of setup(),  *)
(* "l86" is line 86 of loop()).  Texts are sequences of ASCII codes.  A    *)
(* float is a record [nan, c]: not-a-number, or c hundredths of the unit.  *)
(* A millisecond count is a record [hi, lo] of value hi * 65536 + lo with  *)
(* lo < 65536; it is a uint32_t when hi < 65536 as well.                   *)
(* The drivers are the environment: they log every call made to them, and  *)
(* every value a driver returns carries the position of its call in that   *)
(* log, so that the origin of a reported value can be traced.              *)
(***************************************************************************)
EXTENDS Integers, Sequences, FiniteSets

(* ------------------------------ bounds --------------------------------- *)
MaxReq == 2
MaxTicks == 2
MaxFails == 1

(* ----------------------------- constants ------------------------------- *)
NEO_DIM == 3
NEO_BRIGHT == 8
DelayMs == 1000
TAB == 9
SPACE == 32
MINUS == 45
DOT == 46
ZERO == 48
Base == 65536
NeverOk == -1

ID_QUERY == <<105, 100, 63>>   \* "id?"
ID_REPLY == <<65, 114, 100, 117, 105, 110, 111, 44, 32, 68, 111, 100, 101,
              99, 97, 104, 101, 100, 114, 111, 110, 32, 108, 111, 103, 103,
              101, 114>>       \* "Arduino, Dodecahedron logger"
BME_DIAG == <<67, 111, 117, 108, 100, 32, 110, 111, 116, 32, 102, 105, 110,
              100, 32, 97, 32, 118, 97, 108, 105, 100, 32, 66, 77, 69, 50,
              56, 48, 32, 115, 101, 110, 115, 111, 114, 44, 32, 99, 104,
              101, 99, 107, 32, 119, 105, 114, 105, 110, 103, 33>>
                               \* "Could not find a valid BME280 sensor, check wiring!"
NAN_TEXT == <<110, 97, 110>>   \* "nan"

(* ------------------------------- floats -------------------------------- *)
NAN == [nan |-> TRUE, c |-> 0]
Float(c) == [nan |-> FALSE, c |-> c]

(* -------------------------- environment inputs ------------------------- *)
\* Commands the host sends: "id?", "", " ", "ID?"
Cmds == {ID_QUERY, <<>>, <<SPACE>>, <<73, 68, 63>>}
\* Values the drivers return; -127.00 is the DS18B20 "disconnected" value
DS18Vals == {Float(-12700), Float(2134)}
TempVals == {Float(2146)}
HumiVals == {Float(4518), NAN}
PresVals == {Float(10132528)}
\* Amounts of time that pass between two statements [ms]
TickSteps == {[hi |-> 0, lo |-> 1], [hi |-> 32768, lo |-> 65535]}
\* Number of failing bme.begin() calls before the first successful one
FailNs == (0..MaxFails) \cup {NeverOk}

(* ------------------------------- texts --------------------------------- *)
Abs(n) == IF n < 0 THEN -n ELSE n

RECURSIVE DecU(_)
DecU(n) == IF n < 10 THEN <<ZERO + n>>
           ELSE DecU(n \div 10) \o <<ZERO + (n % 10)>>

\* String(now): decimal text of an unsigned long
RECURSIVE StringUL(_)
StringUL(v) ==
  IF v.hi = 0 THEN DecU(v.lo)
  ELSE LET rest == (v.hi % 10) * Base + v.lo
       IN  StringUL([hi |-> v.hi \div 10, lo |-> rest \div 10])
             \o <<ZERO + (rest % 10)>>

RECURSIVE Pow10(_)
Pow10(k) == IF k = 0 THEN 1 ELSE 10 * Pow10(k - 1)

RECURSIVE PadLeft(_, _)
PadLeft(s, w) == IF Len(s) >= w THEN s ELSE PadLeft(<<SPACE>> \o s, w)

\* |c| hundredths rounded to d decimals (half away from zero), d in 0..2
RoundTo(c, d) == (Abs(c) + ((Pow10(2 - d) * 5) \div 10)) \div Pow10(2 - d)

RECURSIVE FracDigits(_, _)
FracDigits(n, d) == IF d = 0 THEN <<>>
                    ELSE FracDigits(n \div 10, d - 1) \o <<ZERO + (n % 10)>>

\* String(value, decimalPlaces): fixed notation, at least decimalPlaces + 2 wide
StringFloat(f, d) ==
  IF f.nan THEN PadLeft(NAN_TEXT, d + 2)
  ELSE LET r    == RoundTo(f.c, d)
           sign == IF f.c < 0 THEN <<MINUS>> ELSE <<>>
           frac == IF d = 0 THEN <<>>
                   ELSE <<DOT>> \o FracDigits(r % Pow10(d), d)
       IN  PadLeft(sign \o DecU(r \div Pow10(d)) \o frac, d + 2)

\* strcmp(a, b) of two NUL-terminated strings
RECURSIVE StrCmp(_, _)
StrCmp(a, b) ==
  LET ca == IF a = <<>> THEN 0 ELSE Head(a)
      cb == IF b = <<>> THEN 0 ELSE Head(b)
  IN  IF ca # cb THEN ca - cb
      ELSE IF ca = 0 THEN 0
      ELSE StrCmp(Tail(a), Tail(b))

\* neo.Color(r, g, b): packed 0x00RRGGBB
ColorSwapped(r, g, b) == g * 65536 + r * 256 + b
Color(r, g, b) == r * 65536 + g * 256 + b

\* millis(): the milliseconds since boot as a uint32_t
Uint16(t) == [hi |-> 0, lo |-> t.lo]
Uint32(t) == [hi |-> t.hi % Base, lo |-> t.lo]

\* Sum of two millisecond counts
Plus(t, d) == [hi |-> t.hi + d.hi + ((t.lo + d.lo) \div Base),
               lo |-> (t.lo + d.lo) % Base]

\* The line of loop() lines 103-105
FormatLineNoHumi(t, a, b, c, d) ==
  StringUL(t) \o <<TAB>> \o StringFloat(a, 1) \o <<TAB>> \o
  StringFloat(b, 1) \o <<TAB>> \o StringFloat(d, 0)
FormatLine(t, a, b, c, d) ==
  StringUL(t) \o <<TAB>> \o StringFloat(a, 1) \o <<TAB>> \o
  StringFloat(b, 1) \o <<TAB>> \o StringFloat(c, 1) \o <<TAB>> \o
  StringFloat(d, 0)

(* ------------------------------- state --------------------------------- *)
VARIABLES
  pc,           \* next statement of setup() / loop()
  pixels,       \* neo: colour stored by setPixelColor()
  led,          \* neo: colour the LED shows (last show())
  serialOut,    \* lines written with Serial.println()
  drvLog,       \* calls made to the sensor drivers
  delays,       \* delay() calls made
  clock,        \* milliseconds since boot (not truncated)
  nTicks,       \* number of Tick steps taken
  bmeFailN,     \* the BME280 driver: failing begin() calls before success
  bmeOk,        \* the BME280 driver: begin() has succeeded
  rx,           \* complete commands received and not yet fetched
  accepted,     \* commands fetched with sc.getCmd()
  strCmd,       \* loop(): char *strCmd
  now,          \* loop(): uint32_t now
  ds18_temp, bme280_temp, bme280_humi, bme280_pres

vars == <<pc, pixels, led, serialOut, drvLog, delays, clock, nTicks,
          bmeFailN, bmeOk, rx, accepted, strCmd, now,
          ds18_temp, bme280_temp, bme280_humi, bme280_pres>>

neoVars == <<pixels, led>>
readings == <<ds18_temp, bme280_temp, bme280_humi, bme280_pres>>
envVars == <<clock, nTicks, bmeFailN, rx>>
cmdVars == <<accepted, strCmd, now>>

\* Number of the request being handled (0 during setup())
CurReq == Len(accepted)

\* A value read from a driver, with the position of the call in drvLog
Sample(f) == [f |-> f, id |-> Len(drvLog) + 1]
Unread == [f |-> NAN, id |-> 0]

\* A driver call: the operation, the request it is made for, the value returned
Call(op, f) == drvLog' = Append(drvLog, [op |-> op, req |-> CurReq, f |-> f])

Println(text, src) ==
  serialOut' = Append(serialOut, [text |-> text, req |-> CurReq, src |-> src])

Attempts == Cardinality({i \in 1..Len(drvLog) : drvLog[i].op = "bme.begin"})

Init ==
  /\ pc = "s56"
  /\ pixels = 0
  /\ led = 0
  /\ serialOut = <<>>
  /\ drvLog = <<>>
  /\ delays = <<>>
  /\ clock = [hi |-> 0, lo |-> 0]
  /\ nTicks = 0
  /\ bmeFailN \in FailNs
  /\ bmeOk = FALSE
  /\ rx = <<>>
  /\ accepted = <<>>
  /\ strCmd = <<>>
  /\ now = [hi |-> 0, lo |-> 0]
  /\ ds18_temp = Unread
  /\ bme280_temp = Unread
  /\ bme280_humi = Unread
  /\ bme280_pres = Unread


(* ------------------------------- setup() ------------------------------- *)
\* line 56: neo.begin()
S56 ==
  /\ pc = "s56"
  /\ pc' = "s57"
  /\ UNCHANGED <<neoVars, serialOut, drvLog, delays, envVars, bmeOk,
                 cmdVars, readings>>

\* line 57: neo.setPixelColor(0, neo.Color(0, 0, NEO_BRIGHT))
S57 ==
  /\ pc = "s57"
  /\ pixels' = Color(0, 0, NEO_BRIGHT)
  /\ pc' = "s58"
  /\ UNCHANGED <<led, serialOut, drvLog, delays, envVars, bmeOk,
                 cmdVars, readings>>

\* line 58: neo.show()
S58 ==
  /\ pc = "s58"
  /\ led' = pixels
  /\ pc' = "s60"
  /\ UNCHANGED <<pixels, serialOut, drvLog, delays, envVars, bmeOk,
                 cmdVars, readings>>

\* line 60: Serial.begin(9600)
S60 ==
  /\ pc = "s60"
  /\ pc' = "s61"
  /\ UNCHANGED <<neoVars, serialOut, drvLog, delays, envVars, bmeOk,
                 cmdVars, readings>>

\* line 61: ds18.begin()
S61 ==
  /\ pc = "s61"
  /\ Call("ds18.begin", NAN)
  /\ pc' = "s64"
  /\ UNCHANGED <<neoVars, serialOut, delays, envVars, bmeOk,
                 cmdVars, readings>>

\* line 64: while (!bme.begin(0x76))
S64 ==
  /\ pc = "s64"
  /\ Attempts <= MaxFails
  /\ LET ok == bmeFailN # NeverOk /\ Attempts >= bmeFailN
     IN  /\ bmeOk' = ok
         /\ pc' = IF ok THEN "s70" ELSE "s65"
  /\ Call("bme.begin", NAN)
  /\ UNCHANGED <<neoVars, serialOut, delays, envVars, cmdVars, readings>>

\* line 65: Serial.println("Could not find a valid BME280 sensor, ...")
S65 ==
  /\ pc = "s65"
  /\ Println(BME_DIAG, <<>>)
  /\ pc' = "s66"
  /\ UNCHANGED <<neoVars, drvLog, delays, envVars, bmeOk, cmdVars, readings>>

\* line 66: delay(1000), then back to the test of line 64
S66NoDelay ==
  /\ pc = "s66"
  /\ pc' = "s64"
  /\ UNCHANGED <<neoVars, serialOut, drvLog, delays, envVars, bmeOk,
                 cmdVars, readings>>
S66IfOnce ==
  /\ pc = "s66"
  /\ delays' = Append(delays, DelayMs)
  /\ clock' = Plus(clock, [hi |-> 0, lo |-> DelayMs])
  /\ pc' = "s70"
  /\ UNCHANGED <<neoVars, serialOut, drvLog, nTicks, bmeFailN, rx, bmeOk,
                 cmdVars, readings>>
S66 ==
  /\ pc = "s66"
  /\ delays' = Append(delays, DelayMs)
  /\ clock' = Plus(clock, [hi |-> 0, lo |-> DelayMs])
  /\ pc' = "s64"
  /\ UNCHANGED <<neoVars, serialOut, drvLog, nTicks, bmeFailN, rx, bmeOk,
                 cmdVars, readings>>

\* line 70: bme.readTemperature(), result dropped
S70 ==
  /\ pc = "s70"
  /\ \E f \in TempVals : Call("readTemperature", f)
  /\ pc' = "s71"
  /\ UNCHANGED <<neoVars, serialOut, delays, envVars, bmeOk,
                 cmdVars, readings>>

\* line 71: bme.readHumidity(), result dropped
S71Store ==
  /\ pc = "s71"
  /\ \E f \in HumiVals : bme280_humi' = Sample(f) /\ Call("readHumidity", f)
  /\ pc' = "s72"
  /\ UNCHANGED <<neoVars, serialOut, delays, envVars, bmeOk, cmdVars,
                 ds18_temp, bme280_temp, bme280_pres>>
S71 ==
  /\ pc = "s71"
  /\ \E f \in HumiVals : Call("readHumidity", f)
  /\ pc' = "s72"
  /\ UNCHANGED <<neoVars, serialOut, delays, envVars, bmeOk,
                 cmdVars, readings>>

\* line 72: bme.readPressure(), result dropped
S72 ==
  /\ pc = "s72"
  /\ \E f \in PresVals : Call("readPressure", f)
  /\ pc' = "s74"
  /\ UNCHANGED <<neoVars, serialOut, delays, envVars, bmeOk,
                 cmdVars, readings>>

\* line 74: neo.setPixelColor(0, neo.Color(0, NEO_DIM, 0))
S74 ==
  /\ pc = "s74"
  /\ pixels' = Color(0, NEO_DIM, 0)
  /\ pc' = "s75"
  /\ UNCHANGED <<led, serialOut, drvLog, delays, envVars, bmeOk,
                 cmdVars, readings>>

\* line 75: neo.show(); setup() returns and loop() is entered
S75 ==
  /\ pc = "s75"
  /\ led' = pixels
  /\ pc' = "l86"
  /\ UNCHANGED <<pixels, serialOut, drvLog, delays, envVars, bmeOk,
                 cmdVars, readings>>

(* -------------------------------- loop() ------------------------------- *)
\* line 86: if (sc.available()); without a command loop() returns and is
\* called again
L86 ==
  /\ pc = "l86"
  /\ pc' = IF rx # <<>> THEN "l87" ELSE "l86"
  /\ UNCHANGED <<neoVars, serialOut, drvLog, delays, envVars, bmeOk,
                 cmdVars, readings>>

\* line 87: strCmd = sc.getCmd()
L87 ==
  /\ pc = "l87"
  /\ strCmd' = Head(rx)
  /\ rx' = Tail(rx)
  /\ accepted' = Append(accepted, Head(rx))
  /\ pc' = "l89"
  /\ UNCHANGED <<neoVars, serialOut, drvLog, delays, clock, nTicks,
                 bmeFailN, bmeOk, now, readings>>

\* line 89: neo.setPixelColor(0, neo.Color(0, NEO_BRIGHT, 0))
L89 ==
  /\ pc = "l89"
  /\ pixels' = Color(0, NEO_BRIGHT, 0)
  /\ pc' = "l90"
  /\ UNCHANGED <<led, serialOut, drvLog, delays, envVars, bmeOk,
                 cmdVars, readings>>

\* line 90: neo.show()
L90 ==
  /\ pc = "l90"
  /\ led' = pixels
  /\ pc' = "l92"
  /\ UNCHANGED <<pixels, serialOut, drvLog, delays, envVars, bmeOk,
                 cmdVars, readings>>

\* line 92: if (strcmp(strCmd, "id?") == 0) ... else ...
L92Inverted ==
  /\ pc = "l92"
  /\ pc' = IF StrCmp(strCmd, ID_QUERY) # 0 THEN "l93" ELSE "l96"
  /\ UNCHANGED <<neoVars, serialOut, drvLog, delays, envVars, bmeOk,
                 cmdVars, readings>>
L92 ==
  /\ pc = "l92"
  /\ pc' = IF StrCmp(strCmd, ID_QUERY) = 0 THEN "l93" ELSE "l96"
  /\ UNCHANGED <<neoVars, serialOut, drvLog, delays, envVars, bmeOk,
                 cmdVars, readings>>

\* line 93: Serial.println("Arduino, Dodecahedron logger")
L93Silent ==
  /\ pc = "l93"
  /\ pc' = "l108"
  /\ UNCHANGED <<neoVars, serialOut, drvLog, delays, envVars, bmeOk,
                 cmdVars, readings>>
L93 ==
  /\ pc = "l93"
  /\ Println(ID_REPLY, <<>>)
  /\ pc' = "l108"
  /\ UNCHANGED <<neoVars, drvLog, delays, envVars, bmeOk, cmdVars, readings>>

\* line 96: now = millis()
L96 ==
  /\ pc = "l96"
  /\ now' = Uint32(clock)
  /\ pc' = "l97"
  /\ UNCHANGED <<neoVars, serialOut, drvLog, delays, envVars, bmeOk,
                 accepted, strCmd, readings>>

\* line 97: ds18.requestTemperatures()
L97 ==
  /\ pc = "l97"
  /\ Call("requestTemperatures", NAN)
  /\ pc' = "l98"
  /\ UNCHANGED <<neoVars, serialOut, delays, envVars, bmeOk,
                 cmdVars, readings>>

\* line 98: ds18_temp = ds18.getTempCByIndex(0)
L98 ==
  /\ pc = "l98"
  /\ \E f \in DS18Vals : ds18_temp' = Sample(f) /\ Call("getTempCByIndex", f)
  /\ pc' = "l99"
  /\ UNCHANGED <<neoVars, serialOut, delays, envVars, bmeOk, cmdVars,
                 bme280_temp, bme280_humi, bme280_pres>>

\* line 99: bme280_temp = bme.readTemperature()
L99 ==
  /\ pc = "l99"
  /\ \E f \in TempVals : bme280_temp' = Sample(f) /\ Call("readTemperature", f)
  /\ pc' = "l100"
  /\ UNCHANGED <<neoVars, serialOut, delays, envVars, bmeOk, cmdVars,
                 ds18_temp, bme280_humi, bme280_pres>>

\* line 100: bme280_humi = bme.readHumidity()
L100NoStore ==
  /\ pc = "l100"
  /\ \E f \in HumiVals : Call("readHumidity", f)
  /\ pc' = "l101"
  /\ UNCHANGED <<neoVars, serialOut, delays, envVars, bmeOk, cmdVars,
                 readings>>
L100 ==
  /\ pc = "l100"
  /\ \E f \in HumiVals : bme280_humi' = Sample(f) /\ Call("readHumidity", f)
  /\ pc' = "l101"
  /\ UNCHANGED <<neoVars, serialOut, delays, envVars, bmeOk, cmdVars,
                 ds18_temp, bme280_temp, bme280_pres>>

\* line 101: bme280_pres = bme.readPressure()
L101 ==
  /\ pc = "l101"
  /\ \E f \in PresVals : bme280_pres' = Sample(f) /\ Call("readPressure", f)
  /\ pc' = "l103"
  /\ UNCHANGED <<neoVars, serialOut, delays, envVars, bmeOk, cmdVars,
                 ds18_temp, bme280_temp, bme280_humi>>

\* lines 103-105: Serial.println(String(now) + '\t' + ...)
L103 ==
  /\ pc = "l103"
  /\ Println(FormatLine(now, ds18_temp.f, bme280_temp.f, bme280_humi.f,
                        bme280_pres.f),
             <<ds18_temp.id, bme280_temp.id, bme280_humi.id, bme280_pres.id>>)
  /\ pc' = "l108"
  /\ UNCHANGED <<neoVars, drvLog, delays, envVars, bmeOk, cmdVars, readings>>

\* line 108: neo.setPixelColor(0, neo.Color(0, NEO_DIM, 0))
L108 ==
  /\ pc = "l108"
  /\ pixels' = Color(0, NEO_DIM, 0)
  /\ pc' = "l109"
  /\ UNCHANGED <<led, serialOut, drvLog, delays, envVars, bmeOk,
                 cmdVars, readings>>

\* line 109: neo.show(); loop() returns and is called again
L109NoShow ==
  /\ pc = "l109"
  /\ pc' = "l86"
  /\ UNCHANGED <<neoVars, serialOut, drvLog, delays, envVars, bmeOk,
                 cmdVars, readings>>
L109 ==
  /\ pc = "l109"
  /\ led' = pixels
  /\ pc' = "l86"
  /\ UNCHANGED <<pixels, serialOut, drvLog, delays, envVars, bmeOk,
                 cmdVars, readings>>

(* ----------------------------- environment ----------------------------- *)
\* The host sends a complete, terminated command
HostSend ==
  /\ Len(accepted) + Len(rx) < MaxReq
  /\ \E c \in Cmds : rx' = Append(rx, c)
  /\ UNCHANGED <<pc, neoVars, serialOut, drvLog, delays, clock, nTicks,
                 bmeFailN, bmeOk, cmdVars, readings>>

\* Time passes
Tick ==
  /\ nTicks < MaxTicks
  /\ \E d \in TickSteps : clock' = Plus(clock, d)
  /\ nTicks' = nTicks + 1
  /\ UNCHANGED <<pc, neoVars, serialOut, drvLog, delays, bmeFailN, rx,
                 bmeOk, cmdVars, readings>>

Next ==
  \/ S56 \/ S57 \/ S58 \/ S60 \/ S61 \/ S64 \/ S65 \/ S66
  \/ S70 \/ S71 \/ S72 \/ S74 \/ S75
  \/ L86 \/ L87 \/ L89 \/ L90 \/ L92 \/ L93
  \/ L96 \/ L97 \/ L98 \/ L99 \/ L100 \/ L101 \/ L103
  \/ L108 \/ L109
  \/ HostSend \/ Tick

Spec == Init /\ [][Next]_vars

TypeOK ==
  /\ pixels \in Nat /\ led \in Nat
  /\ clock.lo \in 0..(Base - 1) /\ now.hi \in 0..(Base - 1)
  /\ bmeOk \in BOOLEAN
  /\ Len(accepted) <= MaxReq


(* ------------------------- reading the outputs ------------------------- *)
\* Fields of a line, split at the tabs
RECURSIVE Split(_)
Split(line) ==
  IF \A i \in 1..Len(line) : line[i] # TAB THEN <<line>>
  ELSE LET k == CHOOSE i \in 1..Len(line) :
                  line[i] = TAB /\ \A j \in 1..(i - 1) : line[j] # TAB
       IN  <<SubSeq(line, 1, k - 1)>> \o Split(SubSeq(line, k + 1, Len(line)))

IsDigit(ch) == ch \in ZERO..(ZERO + 9)
AllDigits(t) == Len(t) > 0 /\ \A i \in 1..Len(t) : IsDigit(t[i])

\* Value of a decimal text, as a millisecond count
RECURSIVE ParseUL(_)
ParseUL(t) ==
  IF t = <<>> THEN [hi |-> 0, lo |-> 0]
  ELSE LET p  == ParseUL(SubSeq(t, 1, Len(t) - 1))
           lo == p.lo * 10 + (t[Len(t)] - ZERO)
       IN  [hi |-> p.hi * 10 + (lo \div Base), lo |-> lo % Base]

Leq(a, b) == a.hi < b.hi \/ (a.hi = b.hi /\ a.lo <= b.lo)

\* Channels of a packed colour
Red(c) == c \div 65536
Green(c) == (c \div 256) % 256
Blue(c) == c % 256
IsBlueAt(c, level) == Red(c) = 0 /\ Green(c) = 0 /\ Blue(c) = level
IsGreenAt(c, level) == Red(c) = 0 /\ Green(c) = level /\ Blue(c) = 0

\* The state the LED shows, by the colours of lines 57, 74, 89 and 108
IndicatorState ==
  IF led = Color(0, 0, NEO_BRIGHT) THEN "Initializing"
  ELSE IF led = Color(0, NEO_DIM, 0) THEN "Idle"
  ELSE IF led = Color(0, NEO_BRIGHT, 0) THEN "Sampling"
  ELSE "Off"

SetupPcs == {"s56", "s57", "s58", "s60", "s61", "s64", "s65", "s66",
             "s70", "s71", "s72", "s74", "s75"}
SetupDone == pc \notin SetupPcs
\* A request has been received and its response is not yet written
BetweenPcs == {"l87", "l89", "l90", "l92", "l93", "l96", "l97", "l98",
               "l99", "l100", "l101", "l103"}

ReadOps == <<"getTempCByIndex", "readTemperature", "readHumidity",
             "readPressure">>
Decimals == <<1, 1, 1, 0>>

Requests == 1..Len(accepted)
Handled(r) == r < CurReq \/ (r = CurReq /\ pc = "l86")
LinesOf(r) == {i \in 1..Len(serialOut) : serialOut[i].req = r}
CallsOf(r, op) ==
  {i \in 1..Len(drvLog) : drvLog[i].req = r /\ drvLog[i].op = op}
AllCallsOf(r) == {i \in 1..Len(drvLog) : drvLog[i].req = r}
ReadLines == {i \in 1..Len(serialOut) : serialOut[i].src # <<>>}
Responses == SelectSeq(serialOut, LAMBDA l : l.req >= 1)
DiagCount == Cardinality({i \in 1..Len(serialOut) : serialOut[i].text = BME_DIAG})
Timestamp(i) == ParseUL(Split(serialOut[i].text)[1])

(* -------------------------------- claims ------------------------------- *)
\* C1: for a request equal to "id?", every line written while handling it is
\* the literal "Arduino, Dodecahedron logger", there is exactly one such line
\* once the request is handled, and no driver operation is called for it.
C1_IdReply ==
  \A r \in Requests :
    accepted[r] = ID_QUERY =>
      /\ \A i \in LinesOf(r) : serialOut[i].text = ID_REPLY
      /\ Cardinality(LinesOf(r)) <= 1
      /\ Handled(r) => Cardinality(LinesOf(r)) = 1
      /\ AllCallsOf(r) = {}

C1_Witness ==
  \E r \in Requests : accepted[r] = ID_QUERY /\ Handled(r) /\ LinesOf(r) # {}

\* C2: for a handled request not equal to "id?", exactly one line is written,
\* it has 5 non-empty tab-separated fields of which the first is a decimal
\* number, and each of the four sensor reads was called exactly once.
C2_ReadReply ==
  \A r \in Requests :
    accepted[r] # ID_QUERY =>
      /\ Cardinality(LinesOf(r)) <= 1
      /\ \A k \in 1..4 : Cardinality(CallsOf(r, ReadOps[k])) <= 1
      /\ Handled(r) =>
           /\ Cardinality(LinesOf(r)) = 1
           /\ \A i \in LinesOf(r) :
                LET fs == Split(serialOut[i].text)
                IN  /\ Len(fs) = 5
                    /\ \A k \in 1..5 : Len(fs[k]) > 0
                    /\ AllDigits(fs[1])
           /\ \A k \in 1..4 : Cardinality(CallsOf(r, ReadOps[k])) = 1

C2_Witness ==
  \E r \in Requests :
    /\ accepted[r] \in {<<>>, <<SPACE>>}
    /\ Handled(r)
    /\ LinesOf(r) # {}

\* C3 as stated: the indicator is Sampling only strictly between the receipt
\* of a request and the emission of its response, Idle at all other times
\* after setup() has completed, Initializing only before that.
C3_AsStated ==
  /\ IndicatorState = "Sampling" => pc \in BetweenPcs
  /\ (SetupDone /\ pc \notin BetweenPcs) => IndicatorState = "Idle"
  /\ IndicatorState = "Initializing" => ~SetupDone

\* C3 amended: the indicator is Sampling only between the receipt of a request
\* and the indicator reset of lines 108-109 that follows the emission of its
\* response, Idle at every poll after setup() has completed, Initializing only
\* before setup() has completed.
C3_Indicator ==
  /\ IndicatorState = "Sampling" => pc \in BetweenPcs \cup {"l108", "l109"}
  /\ (SetupDone /\ pc \notin BetweenPcs \cup {"l108", "l109"})
       => IndicatorState = "Idle"
  /\ IndicatorState = "Initializing" => ~SetupDone

C3_Witness ==
  /\ pc = "l108"
  /\ IndicatorState = "Sampling"
  /\ LinesOf(CurReq) # {}

\* C4: the four values of every readings line are the values returned by the
\* four reads made for the same request, made in the order probe temperature,
\* environment temperature, humidity, pressure.
C4_Snapshot ==
  \A i \in ReadLines :
    LET l  == serialOut[i]
        fs == Split(l.text)
    IN  /\ Len(l.src) = 4
        /\ \A k \in 1..4 :
             /\ l.src[k] \in 1..Len(drvLog)
             /\ drvLog[l.src[k]].req = l.req
             /\ drvLog[l.src[k]].op = ReadOps[k]
             /\ fs[k + 1] = StringFloat(drvLog[l.src[k]].f, Decimals[k])
        /\ \A k \in 1..3 : l.src[k] < l.src[k + 1]

C4_Witness ==
  \E i, j \in ReadLines :
    /\ i < j
    /\ Split(serialOut[i].text)[4] # Split(serialOut[j].text)[4]
    /\ Split(serialOut[i].text)[2] # Split(serialOut[j].text)[2]

\* C5: when bme.begin() fails N times and then succeeds, exactly N diagnostic
\* lines are written and exactly N delays of 1000 ms are made, one after each
\* failure; nothing is added after the successful attempt.
C5_InitRetries ==
  /\ \A i \in 1..Len(delays) : delays[i] = DelayMs
  /\ pc = "s64" => (DiagCount = Attempts /\ Len(delays) = Attempts)
  /\ pc = "s65" => (DiagCount = Attempts - 1 /\ Len(delays) = Attempts - 1)
  /\ pc = "s66" => (DiagCount = Attempts /\ Len(delays) = Attempts - 1)
  /\ bmeOk => /\ bmeFailN # NeverOk
              /\ Attempts = bmeFailN + 1
              /\ DiagCount = bmeFailN
              /\ Len(delays) = bmeFailN

C5_Witness ==
  /\ bmeOk
  /\ bmeFailN >= 1
  /\ Len(delays) = bmeFailN
  /\ Responses # <<>>

\* C6: the values read in setup() are not stored in the reading variables and
\* no value of a response line comes from a read made in setup().
C6_WarmUpDiscarded ==
  /\ \A v \in {ds18_temp, bme280_temp, bme280_humi, bme280_pres} :
       v.id # 0 => drvLog[v.id].req >= 1
  /\ (SetupDone /\ accepted = <<>>) =>
       \A v \in {ds18_temp, bme280_temp, bme280_humi, bme280_pres} : v = Unread
  /\ \A i \in ReadLines :
       \A k \in 1..Len(serialOut[i].src) :
         /\ serialOut[i].src[k] # 0
         /\ drvLog[serialOut[i].src[k]].req >= 1

C6_Witness ==
  /\ Cardinality(AllCallsOf(0)) >= 5
  /\ ReadLines # {}
  /\ \E i \in CallsOf(0, "readHumidity") :
       \E j \in ReadLines :
         drvLog[i].f # drvLog[serialOut[j].src[3]].f

\* C7 as stated: of two readings lines, the later one never has the smaller
\* timestamp.
C7_AsStated ==
  \A i, j \in ReadLines : i < j => Leq(Timestamp(i), Timestamp(j))

\* C7 amended: as long as less than 2^32 ms have passed since boot (the 32-bit
\* counter has not wrapped), of two readings lines the later one never has the
\* smaller timestamp.
C7_Monotonic ==
  clock.hi < Base =>
    \A i, j \in ReadLines : i < j => Leq(Timestamp(i), Timestamp(j))

C7_Witness ==
  /\ clock.hi < Base
  /\ \E i, j \in ReadLines :
       /\ i < j
       /\ Timestamp(i) # Timestamp(j)
       /\ Timestamp(i).hi > 0

\* The indicator as the statements of setup() and loop() have set it
InitShown == pc \in {"s60", "s61", "s64", "s65", "s66", "s70", "s71",
                     "s72", "s74", "s75"}
IdleShown == pc \in {"l86", "l87", "l89", "l90"}
SamplingShown == pc \in {"l92", "l93", "l96", "l97", "l98", "l99", "l100",
                         "l101", "l103", "l108", "l109"}

\* C8 as stated: Initializing is blue at the low level, Idle green at the low
\* level, Sampling green at the high level.
C8_AsStated ==
  /\ InitShown => IsBlueAt(led, NEO_DIM)
  /\ IdleShown => IsGreenAt(led, NEO_DIM)
  /\ SamplingShown => IsGreenAt(led, NEO_BRIGHT)

\* C8 amended: Initializing is blue at the high level, Idle green at the low
\* level, Sampling green at the high level; only Idle uses the low level.
C8_Colours ==
  /\ NEO_DIM < NEO_BRIGHT
  /\ InitShown => IsBlueAt(led, NEO_BRIGHT)
  /\ IdleShown => IsGreenAt(led, NEO_DIM)
  /\ SamplingShown => IsGreenAt(led, NEO_BRIGHT)

C8_Witness ==
  /\ SamplingShown
  /\ IsGreenAt(led, NEO_BRIGHT)
  /\ Len(accepted) = MaxReq

\* C9: until a bme.begin() call succeeds no command is fetched, nothing but
\* diagnostic lines is written, no sensor value is read, the indicator is
\* never Idle or Sampling and is Initializing during the retries; the command
\* loop is reached only after a successful call.
C9_BlockedUntilInit ==
  ~bmeOk =>
    /\ pc \in {"s56", "s57", "s58", "s60", "s61", "s64", "s65", "s66"}
    /\ accepted = <<>>
    /\ \A i \in 1..Len(serialOut) : serialOut[i].text = BME_DIAG
    /\ \A i \in 1..Len(drvLog) : drvLog[i].op \in {"ds18.begin", "bme.begin"}
    /\ IndicatorState \in {"Off", "Initializing"}
    /\ pc \in {"s64", "s65", "s66"} => IndicatorState = "Initializing"

C9_Witness ==
  /\ bmeFailN = NeverOk
  /\ Len(serialOut) >= 2
  /\ rx # <<>>
  /\ pc = "s64"

\* C10: at every poll of loop() one response line has been written for each
\* command fetched, in the order of the commands, the identification line for
\* "id?" and a readings line for anything else, and the indicator is Idle;
\* while a command is handled at most its own response is missing.
C10_OneResponseEach ==
  /\ SetupDone =>
       /\ Len(Responses) \in {Len(accepted) - 1, Len(accepted)}
       /\ \A i \in 1..Len(Responses) :
            /\ Responses[i].req = i
            /\ (Responses[i].text = ID_REPLY) <=> (accepted[i] = ID_QUERY)
            /\ (Responses[i].src = <<>>) <=> (accepted[i] = ID_QUERY)
  /\ pc = "l86" =>
       /\ Len(Responses) = Len(accepted)
       /\ IndicatorState = "Idle"

C10_Witness ==
  /\ pc = "l86"
  /\ Len(accepted) = 2
  /\ accepted[1] # ID_QUERY
  /\ accepted[2] = ID_QUERY
  /\ Len(Responses) = 2

=============================================================================
